---- MODULE Spec2Model ----
(***************************************************************************)
(* Model of final.py: a Streamlit guestbook.  Every user interaction       *)
(* re-executes the whole script against a per-session key/value store      *)
(* (st.session_state) and a shared spreadsheet (the row store).            *)
(*                                                                         *)
(* The source's Chinese string literals are written here in ASCII:         *)
(*   "ANON"       = 匿名用戶        "ALL_MOODS" = 全部心情                 *)
(*   "CARD"       = 卡片模式        "TIMELINE"  = 時間軸模式               *)
(*   "GRID"       = 網格模式        "CONTENT"   = 內容                     *)
(*   "USERNAME"   = 用戶名          "UNKNOWN"   = 未知                     *)
(*   "Name"/"Message"/"Mood"/"Time" (default column labels)                *)
(*                = 名字 / 留言內容 / 心情 / 時間                          *)
(***************************************************************************)
EXTENDS Integers, Sequences, FiniteSets, TLC

VARIABLES
    sheet,          \* the row store: a sequence of rows, each a sequence of cells
    session_state,  \* st.session_state of every session: key -> value
    rerun,          \* session -> st.rerun() was called, the script runs again next
    view,           \* session -> what the last script run put on the page
    event,          \* session -> the widget event the last script run handled
    calls,          \* session -> external calls made by the last script run
    appended,       \* session -> rows this session has appended, in order
    acks,           \* session -> number of success acknowledgments shown
    actor,          \* the session whose script ran in the last step
    now,            \* datetime.now(tw_timezone): [month, day]
    clock_ok,       \* FALSE when pytz.timezone / datetime.now raises
    cal             \* what the chinese_calendar lookup does for today

vars == <<sheet, session_state, rerun, view, event, calls, appended, acks,
          actor, now, clock_ok, cal>>

-----------------------------------------------------------------------------
(* Bounds *)

MaxRows == 3            \* the form is submitted while the row store has fewer rows
MaxNameKeywords == 2    \* a holiday name contains at most this many keywords

Sessions == {"s1", "s2"}

-----------------------------------------------------------------------------
(* Theme (class Theme) *)

SPRING == "SPRING"
SUMMER == "SUMMER"
AUTUMN == "AUTUMN"
WINTER == "WINTER"
CHINESE_NEW_YEAR == "CHINESE_NEW_YEAR"
QINGMING == "QINGMING"
DRAGON_BOAT == "DRAGON_BOAT"
MID_AUTUMN == "MID_AUTUMN"
CHRISTMAS == "CHRISTMAS"
DEFAULT == "DEFAULT"

Theme == {SPRING, SUMMER, AUTUMN, WINTER, CHINESE_NEW_YEAR, QINGMING,
          DRAGON_BOAT, MID_AUTUMN, CHRISTMAS, DEFAULT}

\* The substrings the holiday name is searched for.  A holiday name is
\* represented by the set of these substrings that occur in str(holiday_name).
\*   "ChunJie" 春節  "ChuXi" 除夕  "ChuYi" 初一  "DaNianChu" 大年初
\*   "QingMing" 清明  "DuanWu" 端午  "ZhongQiu" 中秋
NameKeywords == {"ChunJie", "ChuXi", "ChuYi", "DaNianChu",
                 "QingMing", "DuanWu", "ZhongQiu"}

\* Outcomes of is_holiday(now.date()) followed by get_holiday_detail(now.date()):
\*   "raise"   either call raises
\*   "workday" is_holiday returns False (also the ImportError stand-ins)
\*   "unnamed" is_holiday returns True, holiday_name is None or empty
\*   "named"   is_holiday returns True, holiday_name contains the keywords kw
CalendarResults ==
    {[kind |-> k, kw |-> {}] : k \in {"raise", "workday", "unnamed"}}
    \cup {[kind |-> "named", kw |-> S] :
            S \in {T \in SUBSET NameKeywords : Cardinality(T) <= MaxNameKeywords}}

DaysIn(month) ==
    IF month = 2 THEN 29
    ELSE IF month \in {4, 6, 9, 11} THEN 30 ELSE 31

Dates == {[month |-> m, day |-> d] : m \in 1..12, d \in 1..31}
ValidDates == {dt \in Dates : dt.day <= DaysIn(dt.month)}

\* Lines 57-72: the theme returned inside the try block, or "" when the
\* block falls through (no holiday, no name, no matching name, exception).
CalendarTheme(c) ==
    IF c.kind # "named" THEN ""
    ELSE IF c.kw \cap {"ChunJie", "ChuXi", "ChuYi", "DaNianChu"} # {}
         THEN CHINESE_NEW_YEAR
    ELSE IF "QingMing" \in c.kw THEN QINGMING
    ELSE IF "DuanWu" \in c.kw THEN DRAGON_BOAT
    ELSE IF "ZhongQiu" \in c.kw THEN MID_AUTUMN
    ELSE ""

\* DateRangeTheme with the Qingming rule left out.
DateRangeTheme_NoQingming(current_month, current_day) ==
    IF (current_month = 1 /\ current_day >= 20)
       \/ (current_month = 2 /\ current_day <= 20)
    THEN CHINESE_NEW_YEAR
    ELSE IF (current_month = 5 /\ current_day >= 25)
            \/ (current_month = 6 /\ current_day <= 5)
    THEN DRAGON_BOAT
    ELSE IF current_month = 9 /\ 15 <= current_day /\ current_day <= 25
    THEN MID_AUTUMN
    ELSE IF current_month = 12 /\ 15 <= current_day /\ current_day <= 31
    THEN CHRISTMAS
    ELSE ""

\* Lines 74-93: the date-range rules, "" when none applies.
DateRangeTheme(current_month, current_day) ==
    IF (current_month = 1 /\ current_day >= 20)
       \/ (current_month = 2 /\ current_day <= 20)
    THEN CHINESE_NEW_YEAR
    ELSE IF current_month = 4 /\ (current_day = 4 \/ current_day = 5)
    THEN QINGMING
    ELSE IF (current_month = 5 /\ current_day >= 25)
            \/ (current_month = 6 /\ current_day <= 5)
    THEN DRAGON_BOAT
    ELSE IF current_month = 9 /\ 15 <= current_day /\ current_day <= 25
    THEN MID_AUTUMN
    ELSE IF current_month = 12 /\ 15 <= current_day /\ current_day <= 31
    THEN CHRISTMAS
    ELSE ""

\* SeasonTheme with the autumn range ending one month early.
SeasonTheme_ShortAutumn(current_month) ==
    IF 3 <= current_month /\ current_month <= 5 THEN SPRING
    ELSE IF 6 <= current_month /\ current_month <= 8 THEN SUMMER
    ELSE IF 9 <= current_month /\ current_month <= 10 THEN AUTUMN
    ELSE WINTER

\* Lines 95-103: the season of the month.
SeasonTheme(current_month) ==
    IF 3 <= current_month /\ current_month <= 5 THEN SPRING
    ELSE IF 6 <= current_month /\ current_month <= 8 THEN SUMMER
    ELSE IF 9 <= current_month /\ current_month <= 11 THEN AUTUMN
    ELSE WINTER

\* detect_season_or_festival with the date-range rules tried before the
\* calendar lookup.
detect_DateRangeFirst(current_month, current_day, c) ==
    IF DateRangeTheme(current_month, current_day) # ""
    THEN DateRangeTheme(current_month, current_day)
    ELSE IF CalendarTheme(c) # "" THEN CalendarTheme(c)
    ELSE SeasonTheme(current_month)

\* Lines 42-103, once the clock has been read.
detect_season_or_festival(current_month, current_day, c) ==
    IF CalendarTheme(c) # "" THEN CalendarTheme(c)
    ELSE IF DateRangeTheme(current_month, current_day) # ""
    THEN DateRangeTheme(current_month, current_day)
    ELSE SeasonTheme(current_month)

\* current_theme when the calendar lookup has no try/except of its own: its
\* exception leaves the function and reaches the call site.
current_theme_CalendarEscapes(ok, dt, c) ==
    IF ok /\ c.kind # "raise"
    THEN [theme |-> detect_season_or_festival(dt.month, dt.day, c),
          error |-> FALSE]
    ELSE [theme |-> DEFAULT, error |-> TRUE]

\* current_theme when the except branch shows the error and assigns no theme.
current_theme_NoDefault(ok, dt, c) ==
    IF ok THEN [theme |-> detect_season_or_festival(dt.month, dt.day, c),
                error |-> FALSE]
    ELSE [theme |-> "none", error |-> TRUE]

\* Lines 429-433: the call site.  An exception that leaves the function
\* (reading the clock is outside its try block) selects the DEFAULT theme
\* and shows an error.
current_theme(ok, dt, c) ==
    IF ok THEN [theme |-> detect_season_or_festival(dt.month, dt.day, c),
                error |-> FALSE]
    ELSE [theme |-> DEFAULT, error |-> TRUE]

-----------------------------------------------------------------------------
(* Session state (lines 634-656) *)

\* The value each key gets when it is absent from st.session_state.
SessionDefaults ==
    [tab_selection |-> 0,
     refresh_data |-> FALSE,
     message_submitted |-> FALSE,
     liked_messages |-> {},
     view_mode |-> "CARD",
     filter_mood |-> "ALL_MOODS",
     animation_done |-> FALSE,
     show_wordcloud |-> FALSE,
     submission_success |-> FALSE,
     search_query |-> "",
     search_by |-> "CONTENT"]

\* A session before its first script run: no key is present.
EmptySessionState == [k \in {} |-> FALSE]

\* InitSessionState assigning the default to every key on every run.
InitSessionState_Resets(ss) ==
    [k \in DOMAIN ss \cup DOMAIN SessionDefaults |->
        IF k \in DOMAIN SessionDefaults THEN SessionDefaults[k] ELSE ss[k]]

\* "if key not in st.session_state: st.session_state.key = default"
InitSessionState(ss) ==
    [k \in DOMAIN ss \cup DOMAIN SessionDefaults |->
        IF k \in DOMAIN ss THEN ss[k] ELSE SessionDefaults[k]]

\* st.session_state.k = v
SetKey(ss, k, v) ==
    [x \in DOMAIN ss \cup {k} |-> IF x = k THEN v ELSE ss[x]]

-----------------------------------------------------------------------------
(* Compose form (lines 886-1198) *)

\* moods_display (lines 904-910): emoji + " " + text, by index.
\*   😊 開心, 😢 難過, 😡 生氣, 😴 疲倦, 🥰 感動, 🤔 思考中
moods_display ==
    <<"happy KaiXin", "sad NanGuo", "angry ShengQi",
      "tired PiJuan", "love GanDong", "thinking SiKaoZhong">>

\* display_name writing the name field as typed unless the box is checked.
display_name_NameAsTyped(anonymous, name) ==
    IF anonymous THEN "ANON" ELSE name

\* Line 1182: "匿名用戶" if anonymous else name or "匿名用戶"
display_name(anonymous, name) ==
    IF anonymous THEN "ANON"
    ELSE IF name # "" THEN name ELSE "ANON"

\* MessageMissing when the content is not validated.
MessageMissing_Never(message) == FALSE

\* Line 1173: "if not message".
MessageMissing(message) == message = ""

\* ConsumeSuccess when the flag is left set.
ConsumeSuccess_Keep(ss) == ss

\* Line 893: the acknowledgment has been shown, the flag is cleared.
ConsumeSuccess(ss) == [ss EXCEPT !.submission_success = FALSE]

\* The external calls of one run: how often connect_to_gsheets,
\* sheet.append_row and sheet.get_all_values were called, and which of them
\* failed ("" when none did).
NoCalls == [connect |-> 0, append |-> 0, read |-> 0, failed |-> ""]

\* A widget event delivered to a script run.  The fields that do not belong
\* to the kind keep their neutral value.
\*   "none"    first load of the page
\*   "rerun"   the run that st.rerun() starts
\*   "tab"     the navigation radio was changed to tab
\*   "submit"  the form was submitted with name, message, mood, anonymous
\*   "refresh" the refresh button of the browse tab was pressed
\*   "view"    the layout selectbox was changed to view
\*   "search"  the search text was changed to query
\*   "scope"   the search scope selectbox was changed to by
\*   "filter"  the mood filter selectbox was changed to filter
\*   "like"    the like button with key like_<like> was pressed
\*   "cloud"   the word cloud toggle was switched to cloud
NoEvent ==
    [kind |-> "none", tab |-> 0, name |-> "", message |-> "", mood |-> 0,
     anonymous |-> FALSE, view |-> "", query |-> "", by |-> "",
     filter |-> "", like |-> 0, cloud |-> FALSE]

-----------------------------------------------------------------------------
(* Message repository (lines 1235-1265) *)

Range(f) == {f[i] : i \in DOMAIN f}

Min(a, b) == IF a < b THEN a ELSE b

\* Lines 1238-1243, after the first n headers have been processed.  The
\* Python index of headers[n] is n - 1.
RECURSIVE UniqueHeadersUpTo(_, _)
UniqueHeadersUpTo(headers, n) ==
    IF n = 0 THEN <<>>
    ELSE LET prev == UniqueHeadersUpTo(headers, n - 1)
             header == headers[n]
         IN  IF header \in Range(prev)
             THEN Append(prev, header \o "_" \o ToString(n - 1))
             ELSE Append(prev, header)

unique_headers(headers) == UniqueHeadersUpTo(headers, Len(headers))

\* Lines 1248-1251: the dict built from one row.  A later cell stored under
\* a key already present replaces the earlier one.
Record(row, uh) ==
    LET n == Min(Len(row), Len(uh))
    IN  [k \in {uh[i] : i \in 1..n} |->
            row[CHOOSE i \in 1..n :
                    /\ uh[i] = k
                    /\ \A j \in 1..n : uh[j] = k => j <= i]]

\* Lines 1246-1252.
ParseRows(all_values) ==
    LET uh == unique_headers(all_values[1])
    IN  [r \in 1..(Len(all_values) - 1) |-> Record(all_values[r + 1], uh)]

\* entry.get(key, default)
Get(entry, key, default) ==
    IF key \in DOMAIN entry THEN entry[key] ELSE default

\* Lines 1262-1265.
Columns(uh) ==
    [name_col |-> IF Len(uh) > 0 THEN uh[1] ELSE "Name",
     msg_col  |-> IF Len(uh) > 1 THEN uh[2] ELSE "Message",
     mood_col |-> IF Len(uh) > 2 THEN uh[3] ELSE "Mood",
     time_col |-> IF Len(uh) > 3 THEN uh[4] ELSE "Time"]

NoColumns == [name_col |-> "", msg_col |-> "", mood_col |-> "", time_col |-> ""]

-----------------------------------------------------------------------------
(* Text: str.lower() and the "in" test on strings (lines 1320, 1322) *)

\* The characters of a cell or query text.  A text outside this list is one
\* opaque character.
Chars(str) ==
    CASE str = "" -> <<>>
      [] str = "Al" -> <<"A", "l">>
      [] str = "AL" -> <<"A", "L">>
      [] str = "ANON" -> <<"A", "N", "O", "N">>
      [] str = "hi" -> <<"h", "i">>
      [] str = "Hi" -> <<"H", "i">>
      [] str = "happy KaiXin" -> <<"h", "a", "p", "p", "y", " ", "K", "a", "i", "X", "i", "n">>
      [] str = "sad NanGuo" -> <<"s", "a", "d", " ", "N", "a", "n", "G", "u", "o">>
      [] str = "angry ShengQi" -> <<"a", "n", "g", "r", "y", " ", "S", "h", "e", "n", "g", "Q", "i">>
      [] str = "tired PiJuan" -> <<"t", "i", "r", "e", "d", " ", "P", "i", "J", "u", "a", "n">>
      [] str = "love GanDong" -> <<"l", "o", "v", "e", " ", "G", "a", "n", "D", "o", "n", "g">>
      [] str = "thinking SiKaoZhong" -> <<"t", "h", "i", "n", "k", "i", "n", "g", " ", "S", "i", "K", "a", "o", "Z", "h", "o", "n", "g">>
      [] str = "t1" -> <<"t", "1">>
      [] str = "H" -> <<"H">>
      [] str = "zz" -> <<"z", "z">>
      [] str = "x" -> <<"x">>
      [] str = "Message" -> <<"M", "e", "s", "s", "a", "g", "e">>
      [] str = "message" -> <<"m", "e", "s", "s", "a", "g", "e">>
      [] OTHER -> <<str>>

\* str.lower() on one character.
LowerChar(c) ==
    CASE c = "A" -> "a"
      [] c = "B" -> "b"
      [] c = "C" -> "c"
      [] c = "D" -> "d"
      [] c = "E" -> "e"
      [] c = "F" -> "f"
      [] c = "G" -> "g"
      [] c = "H" -> "h"
      [] c = "I" -> "i"
      [] c = "J" -> "j"
      [] c = "K" -> "k"
      [] c = "L" -> "l"
      [] c = "M" -> "m"
      [] c = "N" -> "n"
      [] c = "O" -> "o"
      [] c = "P" -> "p"
      [] c = "Q" -> "q"
      [] c = "R" -> "r"
      [] c = "S" -> "s"
      [] c = "T" -> "t"
      [] c = "U" -> "u"
      [] c = "V" -> "v"
      [] c = "W" -> "w"
      [] c = "X" -> "x"
      [] c = "Y" -> "y"
      [] c = "Z" -> "z"
      [] OTHER -> c

\* str.lower()
Lower(chars) == [i \in 1..Len(chars) |-> LowerChar(chars[i])]

\* "needle in haystack" on strings: needle is a contiguous part of haystack.
Contains(needle, haystack) ==
    \E i \in 0..(Len(haystack) - Len(needle)) :
        \A j \in 1..Len(needle) : haystack[i + j] = needle[j]

\* Matches comparing the texts as they are written.
Matches_CaseSensitive(query, text) == Contains(Chars(query), Chars(text))

\* query.lower() in text.lower()
Matches(query, text) == Contains(Lower(Chars(query)), Lower(Chars(text)))

-----------------------------------------------------------------------------
(* Aggregation, filters and layouts of the browse tab *)

\* mood_data without the increment of line 1271.
mood_data_NoIncrement(data, mood_col) ==
    LET label(i) == Get(data[i], mood_col, "UNKNOWN")
    IN  [m \in {label(i) : i \in DOMAIN data} |-> 1]

\* Lines 1267-1274: mood label -> number of records carrying it; a record
\* without the mood key counts under "UNKNOWN".
mood_data(data, mood_col) ==
    LET label(i) == Get(data[i], mood_col, "UNKNOWN")
    IN  [m \in {label(i) : i \in DOMAIN data} |->
            Cardinality({i \in DOMAIN data : label(i) = m})]

\* MoodFilter keeping the records whose mood differs from the selection.
MoodFilter_Others(data, selected_mood, mood_col) ==
    IF selected_mood # "ALL_MOODS"
    THEN LET Test(entry) == Get(entry, mood_col, "") # selected_mood
         IN  SelectSeq(data, Test)
    ELSE data

\* Lines 1313-1315: the mood filter.
MoodFilter(data, selected_mood, mood_col) ==
    IF selected_mood # "ALL_MOODS"
    THEN LET Test(entry) == Get(entry, mood_col, "") = selected_mood
         IN  SelectSeq(data, Test)
    ELSE data

\* Lines 1318-1322: the search filter.
SearchFilter(filtered_data, search_query, search_by, cols) ==
    IF search_query = "" THEN filtered_data
    ELSE IF search_by = "CONTENT"
    THEN LET Test(entry) == Matches(search_query, Get(entry, cols.msg_col, ""))
         IN  SelectSeq(filtered_data, Test)
    ELSE IF search_by = "USERNAME"
    THEN LET Test(entry) == Matches(search_query, Get(entry, cols.name_col, ""))
         IN  SelectSeq(filtered_data, Test)
    ELSE filtered_data

\* Line 1396: f"{name}_{time}"
message_id(entry, cols) ==
    Get(entry, cols.name_col, "") \o "_" \o Get(entry, cols.time_col, "")

\* One rendered message: the record, its place in the layout (row, column)
\* and its like control: "liked", "unliked", or "none" when the layout
\* renders no like button.
Block(entry, row, col, like) ==
    [entry |-> entry, row |-> row, col |-> col, like |-> like]

\* Lines 1344-1404: two cards per row, each with a like button.
CardView(filtered_data, cols, liked_messages) ==
    [i \in 1..Len(filtered_data) |->
        Block(filtered_data[i], (i - 1) \div 2, (i - 1) % 2,
              IF message_id(filtered_data[i], cols) \in liked_messages
              THEN "liked" ELSE "unliked")]

\* Lines 1406-1482: one entry per row, the time on alternating sides.
TimelineView(filtered_data) ==
    [i \in 1..Len(filtered_data) |->
        Block(filtered_data[i], i - 1, IF (i - 1) % 2 = 0 THEN 2 ELSE 0, "none")]

\* Lines 1484-1545: three notes per row.
GridView(filtered_data) ==
    [i \in 1..Len(filtered_data) |->
        Block(filtered_data[i], (i - 1) \div 3, (i - 1) % 3, "none")]

\* Lines 1344, 1406, 1484: the layout chosen by view_mode.
Layout(view_mode, filtered_data, cols, liked_messages) ==
    IF view_mode = "CARD" THEN CardView(filtered_data, cols, liked_messages)
    ELSE IF view_mode = "TIMELINE" THEN TimelineView(filtered_data)
    ELSE GridView(filtered_data)

\* ToggleLike that never removes.
ToggleLike_AddOnly(liked_messages, id) == liked_messages \cup {id}

\* Lines 1397-1404: the like button of a record was pressed.
ToggleLike(liked_messages, id) ==
    IF id \in liked_messages THEN liked_messages \ {id}
    ELSE liked_messages \cup {id}

-----------------------------------------------------------------------------
(* One execution of the script *)

\* What the browse tab shows below the refresh button when it has records:
\* the header keys, the mood chart data, the filter options and selection,
\* the records after the mood filter and after the search filter, the
\* number in the result-count message (-1 when no message is shown),
\* whether the loading animation was played, the layout and its blocks.
NoListing ==
    [unique_headers |-> <<>>, mood_data |-> <<>>, all_moods |-> {},
     stored_mood |-> "", selected_mood |-> "", mood_filtered |-> <<>>,
     filtered_data |-> <<>>,
     count |-> -1, animated |-> FALSE, view_mode |-> "", blocks |-> <<>>]

\* What a tab body hands back: the session state it leaves, whether it
\* called st.rerun(), the messages it showed, the external calls it made, the
\* rows it appended, whether it showed the success acknowledgment, and the
\* records it parsed.
Outcome(ss, shown) ==
    [ss |-> ss, rerun |-> FALSE, shown |-> shown, calls |-> NoCalls,
     rows |-> <<>>, ack |-> 0, data |-> <<>>, cols |-> NoColumns,
     listing |-> NoListing]

\* ComposeTab setting the success flag before the append call returns.
ComposeTab_FlagOnFailure(ss0, ev, conn_ok, append_ok, current_time) ==
    LET ack  == ss0.submission_success
        ss1  == IF ack THEN ConsumeSuccess(ss0) ELSE ss0
        ss2  == IF "selected_mood_index" \in DOMAIN ss1 THEN ss1
                ELSE SetKey(ss1, "selected_mood_index", 0)
        col_radio == IF ev.kind = "submit" THEN ev.mood
                     ELSE ss2.selected_mood_index
        ss3  == SetKey(ss2, "selected_mood_index", col_radio)
        base == [Outcome(ss3, IF ack THEN {"success"} ELSE {})
                    EXCEPT !.ack = IF ack THEN 1 ELSE 0]
        row  == <<display_name(ev.anonymous, ev.name), ev.message,
                  moods_display[ss3.selected_mood_index + 1], current_time>>
    IN  IF ev.kind # "submit" THEN base
        ELSE IF MessageMissing(ev.message)
        THEN [base EXCEPT !.shown = @ \cup {"validation_error"}]
        ELSE IF ~conn_ok
        THEN [base EXCEPT !.shown = @ \cup {"connect_error"},
                          !.calls.connect = 1, !.calls.failed = "connect"]
        ELSE IF ~append_ok
        THEN [base EXCEPT !.shown = @ \cup {"append_error"},
                          !.ss = [ss3 EXCEPT !.submission_success = TRUE],
                          !.calls.connect = 1, !.calls.append = 1,
                          !.calls.failed = "append"]
        ELSE [base EXCEPT !.ss = [ss3 EXCEPT !.submission_success = TRUE,
                                             !.refresh_data = TRUE],
                          !.rerun = TRUE,
                          !.calls.connect = 1, !.calls.append = 1,
                          !.rows = <<row>>]

\* ComposeTab appending the mood stored before the radio value of this run.
ComposeTab_StaleMood(ss0, ev, conn_ok, append_ok, current_time) ==
    LET ack  == ss0.submission_success
        ss1  == IF ack THEN ConsumeSuccess(ss0) ELSE ss0
        ss2  == IF "selected_mood_index" \in DOMAIN ss1 THEN ss1
                ELSE SetKey(ss1, "selected_mood_index", 0)
        col_radio == IF ev.kind = "submit" THEN ev.mood
                     ELSE ss2.selected_mood_index
        ss3  == SetKey(ss2, "selected_mood_index", col_radio)
        base == [Outcome(ss3, IF ack THEN {"success"} ELSE {})
                    EXCEPT !.ack = IF ack THEN 1 ELSE 0]
        row  == <<display_name(ev.anonymous, ev.name), ev.message,
                  moods_display[ss2.selected_mood_index + 1], current_time>>
    IN  IF ev.kind # "submit" THEN base
        ELSE IF MessageMissing(ev.message)
        THEN [base EXCEPT !.shown = @ \cup {"validation_error"}]
        ELSE IF ~conn_ok
        THEN [base EXCEPT !.shown = @ \cup {"connect_error"},
                          !.calls.connect = 1, !.calls.failed = "connect"]
        ELSE IF ~append_ok
        THEN [base EXCEPT !.shown = @ \cup {"append_error"},
                          !.calls.connect = 1, !.calls.append = 1,
                          !.calls.failed = "append"]
        ELSE [base EXCEPT !.ss = [ss3 EXCEPT !.submission_success = TRUE,
                                             !.refresh_data = TRUE],
                          !.rerun = TRUE,
                          !.calls.connect = 1, !.calls.append = 1,
                          !.rows = <<row>>]

\* Lines 887-1198: the compose tab.  conn_ok: connect_to_gsheets returns a
\* sheet; append_ok: sheet.append_row returns; current_time: the formatted
\* timestamp.
ComposeTab(ss0, ev, conn_ok, append_ok, current_time) ==
    LET ack  == ss0.submission_success
        ss1  == IF ack THEN ConsumeSuccess(ss0) ELSE ss0
        ss2  == IF "selected_mood_index" \in DOMAIN ss1 THEN ss1
                ELSE SetKey(ss1, "selected_mood_index", 0)
        col_radio == IF ev.kind = "submit" THEN ev.mood
                     ELSE ss2.selected_mood_index
        ss3  == SetKey(ss2, "selected_mood_index", col_radio)
        base == [Outcome(ss3, IF ack THEN {"success"} ELSE {})
                    EXCEPT !.ack = IF ack THEN 1 ELSE 0]
        row  == <<display_name(ev.anonymous, ev.name), ev.message,
                  moods_display[ss3.selected_mood_index + 1], current_time>>
    IN  IF ev.kind # "submit" THEN base
        ELSE IF MessageMissing(ev.message)
        THEN [base EXCEPT !.shown = @ \cup {"validation_error"}]
        ELSE IF ~conn_ok
        THEN [base EXCEPT !.shown = @ \cup {"connect_error"},
                          !.calls.connect = 1, !.calls.failed = "connect"]
        ELSE IF ~append_ok
        THEN [base EXCEPT !.shown = @ \cup {"append_error"},
                          !.calls.connect = 1, !.calls.append = 1,
                          !.calls.failed = "append"]
        ELSE [base EXCEPT !.ss = [ss3 EXCEPT !.submission_success = TRUE,
                                             !.refresh_data = TRUE],
                          !.rerun = TRUE,
                          !.calls.connect = 1, !.calls.append = 1,
                          !.rows = <<row>>]

\* Line 1305: the options of the mood filter (their order is not modelled).
all_moods(data, mood_col) ==
    {"ALL_MOODS"} \cup ({Get(data[i], mood_col, "") : i \in DOMAIN data} \ {""})

\* OnlyHeaderOrEmpty testing for the header row alone.
OnlyHeaderOrEmpty_HeaderOnly(all_values) == Len(all_values) = 1

\* Line 1232: only a header row, or no row at all.
OnlyHeaderOrEmpty(all_values) == Len(all_values) <= 1

\* Line 1231: sheet.get_all_values().  A sheet without any row is returned
\* as blank: an empty list or a list holding one empty row.
get_all_values(blank) == IF sheet = <<>> THEN blank ELSE sheet

EmptyReads == {<<>>, << <<>> >>}

\* Line 712: the keys whose value generate_wordcloud takes as the content
\* ("MESSAGE_CONTENT" stands for 留言內容, "CONTENT" for 內容).
ContentKeys ==
    {"MESSAGE_CONTENT", "message", "content", "msg", "text", "CONTENT"}

\* Line 712: key.lower() in [...]
IsContentKey(key) == Lower(Chars(key)) \in {Chars(k) : k \in ContentKeys}

\* Line 1283: one dict per record, holding the content under msg_col.
messages_for_wordcloud(data, msg_col) ==
    [i \in DOMAIN data |-> [k \in {msg_col} |-> Get(data[i], msg_col, "")]]

\* generate_wordcloud without the try of line 730: a failure of the
\* drawing propagates to the caller.
generate_wordcloud_NoTry(messages, wc_ok) ==
    LET content(msg) ==
            IF \E k \in DOMAIN msg : IsContentKey(k)
            THEN msg[CHOOSE k \in DOMAIN msg : IsContentKey(k)] ELSE ""
    IN  IF messages = <<>> THEN "nothing"
        ELSE IF \A i \in DOMAIN messages : content(messages[i]) = ""
        THEN "nothing"
        ELSE IF wc_ok THEN "image" ELSE "raised"

\* Lines 701-755: generate_wordcloud.  wc_ok: the drawing of the cloud
\* (WordCloud, matplotlib) succeeds.  The result is "image" for the picture,
\* "nothing" for None, "error" for None after the error message of line
\* 754.  No content text of the model is blank.
generate_wordcloud(messages, wc_ok) ==
    LET content(msg) ==
            IF \E k \in DOMAIN msg : IsContentKey(k)
            THEN msg[CHOOSE k \in DOMAIN msg : IsContentKey(k)] ELSE ""
    IN  IF messages = <<>> THEN "nothing"
        ELSE IF \A i \in DOMAIN messages : content(messages[i]) = ""
        THEN "nothing"
        ELSE IF wc_ok THEN "image" ELSE "error"

\* Lines 1280-1288: the word cloud picture, or the notice that no cloud
\* could be made.
WordcloudShown(show_wordcloud, cloud) ==
    IF ~show_wordcloud THEN {}
    ELSE IF cloud = "image" THEN {"wordcloud"}
    ELSE IF cloud = "error" THEN {"wordcloud_error", "wordcloud_info"}
    ELSE {"wordcloud_info"}

\* ViewSelected leaving animation_done as it is.
ViewSelected_KeepsFlag(ss0, ev) ==
    IF ev.kind = "view" /\ ev.view # ss0.view_mode
    THEN [ss0 EXCEPT !.view_mode = ev.view]
    ELSE ss0

\* Lines 1208-1213: the layout selectbox.
ViewSelected(ss0, ev) ==
    IF ev.kind = "view" /\ ev.view # ss0.view_mode
    THEN [ss0 EXCEPT !.view_mode = ev.view, !.animation_done = FALSE]
    ELSE ss0

\* SelectedMood keeping a stored filter that is not among the options.
SelectedMood_KeepsStored(ss, ev, options) ==
    IF ev.kind = "filter" /\ ev.filter \in options THEN ev.filter
    ELSE ss.filter_mood

\* Line 1306: what the mood filter selectbox returns: the option just
\* picked, else the stored filter when it is an option, else the first.
SelectedMood(ss, ev, options) ==
    IF ev.kind = "filter" /\ ev.filter \in options THEN ev.filter
    ELSE IF ss.filter_mood \in options THEN ss.filter_mood
    ELSE "ALL_MOODS"

\* Lines 1308-1310: a changed mood filter is stored.
MoodSelected(ss, selected_mood) ==
    IF selected_mood # ss.filter_mood
    THEN [ss EXCEPT !.filter_mood = selected_mood, !.animation_done = FALSE]
    ELSE ss

\* Lines 1325-1548: the count message, the animation, the layout, and the
\* like button.  A pressed like button toggles and reruns at once; else
\* the run ends by resetting refresh_data.
BrowseRender(ss2, ev, shown, cols, selected_mood, mood_filtered, filtered_data) ==
    LET listing ==
            [shown.listing EXCEPT
                !.selected_mood = selected_mood,
                !.mood_filtered = mood_filtered,
                !.filtered_data = filtered_data,
                !.count = IF ss2.search_query # ""
                          THEN Len(filtered_data) ELSE -1,
                !.view_mode = ss2.view_mode,
                !.blocks = Layout(ss2.view_mode, filtered_data, cols,
                                  ss2.liked_messages)]
    IN  IF /\ ev.kind = "like"
           /\ ss2.view_mode = "CARD"
           /\ ev.like < Len(filtered_data)
        THEN [shown EXCEPT
                !.listing = listing,
                !.ss = [ss2 EXCEPT !.liked_messages =
                          ToggleLike(@, message_id(filtered_data[ev.like + 1],
                                                   cols))],
                !.rerun = TRUE]
        ELSE [shown EXCEPT
                !.listing = listing,
                !.ss = [ss2 EXCEPT !.refresh_data = FALSE]]

\* BrowseFilter searching all the records instead of the mood-filtered ones.
BrowseFilter_SearchAll(ss1, ev, shown, cols, selected_mood, mood_filtered) ==
    BrowseRender([ss1 EXCEPT !.animation_done = TRUE], ev,
                 [shown EXCEPT !.listing.animated = ~ss1.animation_done],
                 cols, selected_mood, mood_filtered,
                 SearchFilter(shown.data, ss1.search_query, ss1.search_by,
                              cols))

\* Lines 1312-1341: the mood filter, then the search filter; the animation
\* is played when animation_done is not set, and sets it.
BrowseFilter(ss1, ev, shown, cols, selected_mood, mood_filtered) ==
    BrowseRender([ss1 EXCEPT !.animation_done = TRUE], ev,
                 [shown EXCEPT !.listing.animated = ~ss1.animation_done],
                 cols, selected_mood, mood_filtered,
                 SearchFilter(mood_filtered, ss1.search_query, ss1.search_by,
                              cols))

\* Lines 1304-1315: the mood filter selectbox over the moods of the records.
BrowseMood(ssv, ev, shown, data, cols, selected_mood) ==
    BrowseFilter(MoodSelected(ssv, selected_mood), ev,
                 [shown EXCEPT !.listing.stored_mood = ssv.filter_mood], cols,
                 selected_mood, MoodFilter(data, selected_mood, cols.mood_col))

\* Lines 1255-1310: no record gives the notice; else the mood chart data
\* and the filter options are made from the records.
BrowseData(ssv, ev, called, uh, data, cols, cloud) ==
    IF data = <<>>
    THEN [called EXCEPT !.shown = {"no_messages"}]
    ELSE IF ssv.show_wordcloud /\ cloud = "raised"
    THEN [called EXCEPT !.shown = {"read_error"}]
    ELSE BrowseMood(ssv, ev,
                    [called EXCEPT
                        !.shown = WordcloudShown(ssv.show_wordcloud, cloud),
                        !.data = data, !.cols = cols,
                        !.listing.unique_headers = uh,
                        !.listing.mood_data = mood_data(data, cols.mood_col),
                        !.listing.all_moods = all_moods(data, cols.mood_col)],
                    data, cols,
                    SelectedMood(ssv, ev, all_moods(data, cols.mood_col)))

\* Lines 1232-1265: the rows that were read.  all_values[0] of an empty
\* list raises, and the exception is caught at line 1552.
BrowseParse(ssv, ev, called, all_values, wc_ok) ==
    IF OnlyHeaderOrEmpty(all_values)
    THEN [called EXCEPT !.shown = {"no_messages"}]
    ELSE IF Len(all_values) = 0
    THEN [called EXCEPT !.shown = {"read_error"}]
    ELSE BrowseData(ssv, ev, called, unique_headers(all_values[1]),
                    ParseRows(all_values),
                    Columns(unique_headers(all_values[1])),
                    generate_wordcloud(
                        messages_for_wordcloud(
                            ParseRows(all_values),
                            Columns(unique_headers(all_values[1])).msg_col),
                        wc_ok))

\* Lines 1227-1233 and 1550-1553: the connection and the read.
\* read_ok: sheet.get_all_values returns.
BrowseConnect(ssw, ev, conn_ok, read_ok, blank, wc_ok) ==
    IF ~conn_ok
    THEN [Outcome(ssw, {"connect_error", "cannot_connect"})
            EXCEPT !.calls.connect = 1, !.calls.failed = "connect"]
    ELSE IF ~read_ok
    THEN [Outcome(ssw, {"read_error"})
            EXCEPT !.calls.connect = 1, !.calls.read = 1,
                   !.calls.failed = "read"]
    ELSE BrowseParse(ssw, ev,
                     [Outcome(ssw, {})
                        EXCEPT !.calls.connect = 1, !.calls.read = 1],
                     get_all_values(blank), wc_ok)

\* Line 1224: the word cloud toggle.
CloudToggled(ssv, ev) ==
    IF ev.kind = "cloud" THEN [ssv EXCEPT !.show_wordcloud = ev.cloud]
    ELSE ssv

\* Lines 1215-1224: the refresh button, then the word cloud toggle.
BrowseFetch(ssv, ev, conn_ok, read_ok, blank, wc_ok) ==
    IF ev.kind = "refresh"
    THEN [Outcome([ssv EXCEPT !.refresh_data = TRUE,
                              !.animation_done = FALSE], {})
            EXCEPT !.rerun = TRUE]
    ELSE BrowseConnect(CloudToggled(ssv, ev), ev, conn_ok, read_ok, blank,
                       wc_ok)

\* Lines 1201-1553: the browse tab.
BrowseTab(ss0, ev, conn_ok, read_ok, blank, wc_ok) ==
    BrowseFetch(ViewSelected(ss0, ev), ev, conn_ok, read_ok, blank, wc_ok)

\* The widgets created with key= keep their value in st.session_state under
\* that key (lines 1294, 1299): a change of the search text or of the search
\* scope is in the session state when the script starts.
KeyedWidgets(ss, ev) ==
    IF ev.kind = "search" THEN [ss EXCEPT !.search_query = ev.query]
    ELSE IF ev.kind = "scope" THEN [ss EXCEPT !.search_by = ev.by]
    ELSE ss

\* ScriptRun restarting on a tab change without storing the selected tab.
ScriptRun_TabNotStored(ss_in, ev, io, current_time) ==
    LET th  == current_theme(clock_ok, now, cal)
        ss0 == KeyedWidgets(InitSessionState(ss_in), ev)
        selected_tab == IF ev.kind = "tab" THEN ev.tab ELSE ss0.tab_selection
        out == IF selected_tab # ss0.tab_selection
               THEN [Outcome(ss0, {})
                        EXCEPT !.rerun = TRUE]
               ELSE IF ss0.tab_selection = 0
               THEN ComposeTab(ss0, ev, io.conn_ok, io.io_ok, current_time)
               ELSE BrowseTab(ss0, ev, io.conn_ok, io.io_ok, io.blank,
                              io.wc_ok)
        body == IF selected_tab # ss0.tab_selection THEN "none"
                ELSE IF ss0.tab_selection = 0 THEN "compose" ELSE "browse"
    IN  [out EXCEPT !.shown = @ \cup (IF th.error THEN {"theme_error"} ELSE {})]
        @@ [theme |-> th.theme, body |-> body]

\* The whole script, top to bottom, for one session.
ScriptRun(ss_in, ev, io, current_time) ==
    LET th  == current_theme(clock_ok, now, cal)
        ss0 == KeyedWidgets(InitSessionState(ss_in), ev)
        selected_tab == IF ev.kind = "tab" THEN ev.tab ELSE ss0.tab_selection
        out == IF selected_tab # ss0.tab_selection
               THEN [Outcome([ss0 EXCEPT !.tab_selection = selected_tab], {})
                        EXCEPT !.rerun = TRUE]
               ELSE IF ss0.tab_selection = 0
               THEN ComposeTab(ss0, ev, io.conn_ok, io.io_ok, current_time)
               ELSE BrowseTab(ss0, ev, io.conn_ok, io.io_ok, io.blank,
                              io.wc_ok)
        body == IF selected_tab # ss0.tab_selection THEN "none"
                ELSE IF ss0.tab_selection = 0 THEN "compose" ELSE "browse"
    IN  [out EXCEPT !.shown = @ \cup (IF th.error THEN {"theme_error"} ELSE {})]
        @@ [theme |-> th.theme, body |-> body]

NoView ==
    [theme |-> "", body |-> "none", shown |-> {}, data |-> <<>>,
     cols |-> NoColumns, listing |-> NoListing]

-----------------------------------------------------------------------------
(* Inputs *)

Names == {"", "Al"}
Messages == {"", "hi"}
MoodIndexes == {0, 5}
Times == {"t1"}

HeaderRows ==
    {<<"Name", "Message", "Mood", "Time">>,
     <<"A", "A", "A", "A">>,
     <<"A", "A_2", "A", "T">>}

InitialSheets == {<<>>} \cup {<<h>> : h \in HeaderRows}

\* Inputs of the browse tab.
Views == {"CARD", "TIMELINE", "GRID"}
Queries == {"", "AL", "H", "zz"}
Scopes == {"CONTENT", "USERNAME"}

\* Sheets that already hold messages: rows written by the form, rows edited
\* in the spreadsheet (an emptied mood cell, a short row, a long row), and a
\* header row with repeated names.
BrowseSheets ==
    {<< <<"Name", "Message", "Mood", "Time">>,
        <<"Al", "hi", "happy KaiXin", "t1">>,
        <<"ANON", "Hi", "sad NanGuo", "t1">> >>,
     << <<"Name", "Message", "Mood", "Time">>,
        <<"Al", "hi", "", "t1">>,
        <<"Al", "x", "happy KaiXin", "t1">>,
        <<"ANON", "Hi", "happy KaiXin", "t1">> >>,
     << <<"Name", "Message", "Mood", "Time">>,
        <<"Al", "hi">>,
        <<"AL", "zz", "happy KaiXin", "t1", "x">> >>,
     << <<"A", "A_2", "A", "T">>,
        <<"Al", "hi", "happy KaiXin", "t1">>,
        <<"Al", "hi">> >>}

-----------------------------------------------------------------------------
(* Specification *)

\* No session has run the script yet.
InitApp ==
    /\ session_state = [s \in Sessions |-> EmptySessionState]
    /\ rerun = [s \in Sessions |-> FALSE]
    /\ view = [s \in Sessions |-> NoView]
    /\ event = [s \in Sessions |-> NoEvent]
    /\ calls = [s \in Sessions |-> NoCalls]
    /\ appended = [s \in Sessions |-> <<>>]
    /\ acks = [s \in Sessions |-> 0]
    /\ actor = "nobody"

\* Under Spec the date is kept fixed: an ordinary summer day.
Init ==
    /\ InitApp
    /\ sheet \in InitialSheets
    /\ now = [month |-> 7, day |-> 1]
    /\ clock_ok = TRUE
    /\ cal = [kind |-> "workday", kw |-> {}]

\* Run inserting the submitted row directly below the header row.
Run_InsertsAfterHeader(s, ev, io, current_time) ==
    LET r == ScriptRun(session_state[s], ev, io, current_time)
    IN  /\ session_state' = [session_state EXCEPT ![s] = r.ss]
        /\ sheet' = IF sheet = <<>> THEN r.rows
                   ELSE <<Head(sheet)>> \o r.rows \o Tail(sheet)
        /\ rerun' = [rerun EXCEPT ![s] = r.rerun]
        /\ view' = [view EXCEPT ![s] =
                      [theme |-> r.theme, body |-> r.body, shown |-> r.shown,
                       data |-> r.data, cols |-> r.cols,
                       listing |-> r.listing]]
        /\ event' = [event EXCEPT ![s] = ev]
        /\ calls' = [calls EXCEPT ![s] = r.calls]
        /\ appended' = [appended EXCEPT ![s] = @ \o r.rows]
        /\ acks' = [acks EXCEPT ![s] = @ + r.ack]
        /\ actor' = s
        /\ UNCHANGED <<now, clock_ok, cal>>

\* Run writing the submitted row below the header row, over what is there.
Run_WritesSecondRow(s, ev, io, current_time) ==
    LET r == ScriptRun(session_state[s], ev, io, current_time)
    IN  /\ session_state' = [session_state EXCEPT ![s] = r.ss]
        /\ sheet' = IF r.rows = <<>> THEN sheet
                   ELSE SubSeq(sheet, 1, 1) \o r.rows
        /\ rerun' = [rerun EXCEPT ![s] = r.rerun]
        /\ view' = [view EXCEPT ![s] =
                      [theme |-> r.theme, body |-> r.body, shown |-> r.shown,
                       data |-> r.data, cols |-> r.cols,
                       listing |-> r.listing]]
        /\ event' = [event EXCEPT ![s] = ev]
        /\ calls' = [calls EXCEPT ![s] = r.calls]
        /\ appended' = [appended EXCEPT ![s] = @ \o r.rows]
        /\ acks' = [acks EXCEPT ![s] = @ + r.ack]
        /\ actor' = s
        /\ UNCHANGED <<now, clock_ok, cal>>

\* Session s runs the script for event ev.
Run(s, ev, io, current_time) ==
    LET r == ScriptRun(session_state[s], ev, io, current_time)
    IN  /\ session_state' = [session_state EXCEPT ![s] = r.ss]
        /\ sheet' = sheet \o r.rows
        /\ rerun' = [rerun EXCEPT ![s] = r.rerun]
        /\ view' = [view EXCEPT ![s] =
                      [theme |-> r.theme, body |-> r.body, shown |-> r.shown,
                       data |-> r.data, cols |-> r.cols,
                       listing |-> r.listing]]
        /\ event' = [event EXCEPT ![s] = ev]
        /\ calls' = [calls EXCEPT ![s] = r.calls]
        /\ appended' = [appended EXCEPT ![s] = @ \o r.rows]
        /\ acks' = [acks EXCEPT ![s] = @ + r.ack]
        /\ actor' = s
        /\ UNCHANGED <<now, clock_ok, cal>>

\* What the remote calls of one run do: the connection fails, the connection
\* succeeds and the call on the sheet raises, or both succeed (blank is what
\* a read of a sheet without rows returns).
IOOk(blank) ==
    [conn_ok |-> TRUE, io_ok |-> TRUE, blank |-> blank, wc_ok |-> TRUE]

IOResults ==
    {[conn_ok |-> FALSE, io_ok |-> FALSE, blank |-> <<>>, wc_ok |-> TRUE],
     [conn_ok |-> TRUE, io_ok |-> FALSE, blank |-> <<>>, wc_ok |-> TRUE]}
    \cup {IOOk(blank) : blank \in EmptyReads}

Started(s) == DOMAIN session_state[s] # {}

\* The browser opens the page: the first run of the session.
Load(s) ==
    /\ ~Started(s)
    /\ \E t \in Times : Run(s, NoEvent, IOOk(<<>>), t)

\* The run started by st.rerun().
Rerun(s) ==
    /\ rerun[s]
    /\ \E io \in IOResults :
          Run(s, [NoEvent EXCEPT !.kind = "rerun"], io, "t1")

\* The user picks the other tab in the navigation radio.
SelectTab(s) ==
    /\ Started(s) /\ ~rerun[s]
    /\ \E t \in {0, 1} :
          /\ t # session_state[s].tab_selection
          /\ Run(s, [NoEvent EXCEPT !.kind = "tab", !.tab = t], IOOk(<<>>), "t1")

\* The user submits the compose form.
Submit(s) ==
    /\ ~rerun[s] /\ view[s].body = "compose"
    /\ Len(sheet) < MaxRows
    /\ \E name \in Names, message \in Messages, mood \in MoodIndexes,
          anonymous \in BOOLEAN, io \in {x \in IOResults : x.blank = <<>>},
          t \in Times :
          Run(s, [NoEvent EXCEPT !.kind = "submit", !.name = name,
                                 !.message = message, !.mood = mood,
                                 !.anonymous = anonymous], io, t)

\* The user presses the refresh button of the browse tab.
ClickRefresh(s) ==
    /\ ~rerun[s] /\ view[s].body = "browse"
    /\ Run(s, [NoEvent EXCEPT !.kind = "refresh"], IOOk(<<>>), "t1")

\* The user picks a layout in the layout selectbox.
SelectView(s) ==
    /\ ~rerun[s] /\ view[s].body = "browse"
    /\ \E v \in Views \ {session_state[s].view_mode} :
          Run(s, [NoEvent EXCEPT !.kind = "view", !.view = v], IOOk(<<>>), "t1")

\* The user types a search text.
Search(s) ==
    /\ ~rerun[s] /\ view[s].listing.view_mode # ""
    /\ \E q \in Queries \ {session_state[s].search_query} :
          Run(s, [NoEvent EXCEPT !.kind = "search", !.query = q],
              IOOk(<<>>), "t1")

\* The user picks the field the search looks at.
SelectScope(s) ==
    /\ ~rerun[s] /\ view[s].listing.view_mode # ""
    /\ \E b \in Scopes \ {session_state[s].search_by} :
          Run(s, [NoEvent EXCEPT !.kind = "scope", !.by = b], IOOk(<<>>), "t1")

\* The user picks one of the offered options of the mood filter.
SelectMoodFilter(s) ==
    /\ ~rerun[s] /\ view[s].listing.view_mode # ""
    /\ \E m \in view[s].listing.all_moods \ {view[s].listing.selected_mood} :
          Run(s, [NoEvent EXCEPT !.kind = "filter", !.filter = m],
              IOOk(<<>>), "t1")

\* The user presses the like button of a rendered message.
ClickLike(s) ==
    /\ ~rerun[s]
    /\ \E i \in DOMAIN view[s].listing.blocks :
          /\ view[s].listing.blocks[i].like # "none"
          /\ Run(s, [NoEvent EXCEPT !.kind = "like", !.like = i - 1],
                 IOOk(<<>>), "t1")

\* The user switches the word cloud toggle; the drawing may fail.
ToggleWordcloud(s) ==
    /\ ~rerun[s] /\ view[s].body = "browse"
    /\ \E ok \in BOOLEAN :
          Run(s, [NoEvent EXCEPT !.kind = "cloud",
                                 !.cloud = ~session_state[s].show_wordcloud],
              [IOOk(<<>>) EXCEPT !.wc_ok = ok], "t1")

\* The sessions that act under Spec.
Visitors == {"s1"}

Next ==
    \E s \in Visitors :
        \/ Load(s)
        \/ Rerun(s)
        \/ SelectTab(s)
        \/ Submit(s)
        \/ ClickRefresh(s)

Spec == Init /\ [][Next]_vars

\* The application over sheets that already hold messages, with every
\* control of the browse tab.
InitBrowse ==
    /\ InitApp
    /\ sheet \in BrowseSheets
    /\ now = [month |-> 7, day |-> 1]
    /\ clock_ok = TRUE
    /\ cal = [kind |-> "workday", kw |-> {}]

NextBrowse ==
    \E s \in Visitors :
        \/ Load(s)
        \/ Rerun(s)
        \/ SelectTab(s)
        \/ ClickRefresh(s)
        \/ SelectView(s)
        \/ Search(s)
        \/ SelectScope(s)
        \/ SelectMoodFilter(s)
        \/ ClickLike(s)

SpecBrowse == InitBrowse /\ [][NextBrowse]_vars

\* The browse tab with the word cloud toggle and the layout selectbox.
NextCloud ==
    \E s \in Visitors :
        \/ Load(s)
        \/ Rerun(s)
        \/ SelectTab(s)
        \/ ClickRefresh(s)
        \/ SelectView(s)
        \/ ToggleWordcloud(s)

SpecCloud == InitBrowse /\ [][NextCloud]_vars

\* Line 676: the rows live in a Google spreadsheet that its owner can edit
\* outside the program; here the owner replaces the content.
EditSheet ==
    /\ sheet' \in BrowseSheets \ {sheet}
    /\ actor' = "owner"
    /\ UNCHANGED <<session_state, rerun, view, event, calls, appended, acks,
                   now, clock_ok, cal>>

\* The browse tab with the mood filter, over a spreadsheet that is edited.
NextEdit ==
    \/ \E s \in Visitors :
          \/ Load(s)
          \/ Rerun(s)
          \/ SelectTab(s)
          \/ ClickRefresh(s)
          \/ SelectMoodFilter(s)
    \/ EditSheet

SpecEdit == InitBrowse /\ [][NextEdit]_vars

\* Two sessions on one sheet that starts with its header row: the second
\* session writes while the first uses every control of the browse tab.
\* The inputs are narrowed to one name, one mood and remote calls that
\* succeed.
InitStore ==
    /\ InitApp
    /\ sheet = << <<"Name", "Message", "Mood", "Time">> >>
    /\ now = [month |-> 7, day |-> 1]
    /\ clock_ok = TRUE
    /\ cal = [kind |-> "workday", kw |-> {}]

Writers == Sessions \ Visitors

NextStore ==
    \/ \E s \in Sessions :
          \/ Load(s)
          \/ Rerun(s) /\ calls'[s].failed = ""
    \/ \E s \in Writers :
          /\ Submit(s)
          /\ event'[s].name = "Al" /\ event'[s].mood = 0
          /\ calls'[s].failed = ""
    \/ \E s \in Visitors :
          \/ SelectTab(s)
          \/ ClickRefresh(s)
          \/ SelectView(s) /\ event'[s].view # "GRID"
          \/ Search(s) /\ event'[s].query \in {"", "H"}
          \/ SelectScope(s)
          \/ SelectMoodFilter(s)
          \/ ClickLike(s)

SpecStore == InitStore /\ [][NextStore]_vars

\* Two sessions that both submit the form, on one sheet that starts with
\* its header row.  The inputs are narrowed to one name and one mood; the
\* anonymous box makes the rows differ.
NextWriters ==
    \E s \in Sessions :
        \/ Load(s)
        \/ Rerun(s)
        \/ Submit(s) /\ event'[s].name = "Al" /\ event'[s].mood = 0

SpecWriters == InitStore /\ [][NextWriters]_vars

\* The theme selector over every date and every calendar outcome: the page
\* is opened once on a day drawn from the whole year.
InitTheme ==
    /\ InitApp
    /\ sheet = <<>>
    /\ now \in ValidDates
    /\ clock_ok \in BOOLEAN
    /\ cal \in CalendarResults

NextTheme == \E s \in Visitors : Load(s)

SpecTheme == InitTheme /\ [][NextTheme]_vars

-----------------------------------------------------------------------------
(* Properties *)

\* The script has run at least once for session s.
Rendered(s) == view[s].theme # ""

\* The last run of s was a form submission that appended its row.
SubmitSucceeded(s) ==
    event[s].kind = "submit" /\ calls[s].append = 1 /\ calls[s].failed = ""

\* C1: a submission with empty content makes no append call and shows the
\* validation error, and every row the application has appended has
\* non-empty content.
C1_EmptyContentNotAppended ==
    \A s \in Sessions :
        /\ (event[s].kind = "submit" /\ event[s].message = "")
              => /\ calls[s].append = 0
                 /\ calls[s].connect = 0
                 /\ "validation_error" \in view[s].shown
        /\ \A i \in DOMAIN appended[s] : appended[s][i][2] # ""

C1_Witness ==
    \E s \in Sessions :
        /\ event[s].kind = "submit" /\ event[s].message = ""
        /\ "validation_error" \in view[s].shown
        /\ Len(appended[s]) = 1

\* C2: after a successful submission made on the compose tab the active tab
\* is browse (tab_selection = 1) for the next render.
C2_SubmitSwitchesToBrowse ==
    \A s \in Sessions :
        (SubmitSucceeded(s) /\ rerun[s]) => session_state[s].tab_selection = 1

\* C3: the success flag is consumed exactly once: every successful append of
\* a session is either still flagged or has been acknowledged, so the number
\* of acknowledgments shown never exceeds the number of appends, and a render
\* that shows the acknowledgment leaves the flag cleared.
C3_SuccessFlagConsumedOnce ==
    \A s \in Sessions :
        LET flagged == Started(s) /\ session_state[s].submission_success
        IN  /\ acks[s] + (IF flagged THEN 1 ELSE 0) = Len(appended[s])
            /\ flagged => SubmitSucceeded(s) /\ rerun[s]
            /\ "success" \in view[s].shown => ~flagged /\ acks[s] >= 1

C3_Witness ==
    \E s \in Sessions :
        acks[s] = 2 /\ "success" \in view[s].shown /\ Len(appended[s]) = 2

\* The date-range holiday windows, by holiday; "" outside all of them.
HolidayWindow(dt) ==
    CASE (dt.month = 1 /\ dt.day \in 20..31) \/ (dt.month = 2 /\ dt.day \in 1..20)
            -> CHINESE_NEW_YEAR
      [] dt.month = 4 /\ dt.day \in {4, 5} -> QINGMING
      [] (dt.month = 5 /\ dt.day \in 25..31) \/ (dt.month = 6 /\ dt.day \in 1..5)
            -> DRAGON_BOAT
      [] dt.month = 9 /\ dt.day \in 15..25 -> MID_AUTUMN
      [] dt.month = 12 /\ dt.day \in 15..31 -> CHRISTMAS
      [] OTHER -> ""

\* The season of a month.
SeasonOf(month) ==
    CASE month \in {3, 4, 5} -> SPRING
      [] month \in {6, 7, 8} -> SUMMER
      [] month \in {9, 10, 11} -> AUTUMN
      [] month \in {12, 1, 2} -> WINTER

\* The calendar lookup failed, reported no holiday, or reported a holiday
\* whose name matches none of the searched names.
NoNamedMatch == cal.kind # "named" \/ cal.kw = {}

\* The themes whose names occur in the holiday name the calendar reported.
MatchedThemes ==
    IF cal.kind # "named" THEN {}
    ELSE (IF cal.kw \cap {"ChunJie", "ChuXi", "ChuYi", "DaNianChu"} # {}
          THEN {CHINESE_NEW_YEAR} ELSE {})
         \cup (IF "QingMing" \in cal.kw THEN {QINGMING} ELSE {})
         \cup (IF "DuanWu" \in cal.kw THEN {DRAGON_BOAT} ELSE {})
         \cup (IF "ZhongQiu" \in cal.kw THEN {MID_AUTUMN} ELSE {})

\* C4: without a named calendar match, a date inside a holiday window gets
\* that holiday's theme, never the season of its month.
C4_HolidayWindowBeatsSeason ==
    \A s \in Sessions :
        (Rendered(s) /\ clock_ok /\ NoNamedMatch /\ HolidayWindow(now) # "")
            => /\ view[s].theme = HolidayWindow(now)
               /\ view[s].theme # SeasonOf(now.month)

C4_Witness ==
    \E s \in Sessions :
        /\ Rendered(s) /\ clock_ok /\ cal.kind = "raise"
        /\ now = [month |-> 4, day |-> 5]
        /\ view[s].theme = QINGMING

\* C5: without a named calendar match, a date outside every holiday window
\* gets the season of its month.
C5_SeasonOutsideWindows ==
    \A s \in Sessions :
        (Rendered(s) /\ clock_ok /\ NoNamedMatch /\ HolidayWindow(now) = "")
            => view[s].theme = SeasonOf(now.month)

C5_Witness ==
    \E s \in Sessions :
        /\ Rendered(s) /\ clock_ok /\ cal.kind = "workday"
        /\ now = [month |-> 11, day |-> 30]
        /\ view[s].theme = AUTUMN

\* C6: a holiday name that matches one of the searched names decides the
\* theme whatever the date; the date-range rules and the seasons decide only
\* when there is no such match.
C6_CalendarNameFirst ==
    \A s \in Sessions :
        (Rendered(s) /\ clock_ok) =>
            /\ MatchedThemes # {} => view[s].theme \in MatchedThemes
            /\ (view[s].theme \notin MatchedThemes
                    /\ view[s].theme \in {HolidayWindow(now), SeasonOf(now.month)})
                  => NoNamedMatch

C6_Witness ==
    \E s \in Sessions :
        /\ Rendered(s) /\ clock_ok
        /\ cal = [kind |-> "named", kw |-> {"ZhongQiu"}]
        /\ HolidayWindow(now) = CHRISTMAS
        /\ view[s].theme = MID_AUTUMN

\* C7: an error of the calendar lookup is caught inside the detector, which
\* still returns a theme and shows no error; an error that leaves the
\* detector selects the DEFAULT theme and the render goes on to the tab body.
C7_ThemeNeverFailsOutward ==
    \A s \in Sessions :
        Rendered(s) =>
            /\ (clock_ok /\ cal.kind = "raise")
                  => /\ view[s].theme \in Theme \ {DEFAULT}
                     /\ "theme_error" \notin view[s].shown
            /\ ~clock_ok
                  => /\ view[s].theme = DEFAULT
                     /\ "theme_error" \in view[s].shown
            /\ view[s].body = "compose"

C7_Witness ==
    \E s \in Sessions :
        /\ Rendered(s) /\ ~clock_ok
        /\ view[s].theme = DEFAULT /\ view[s].body = "compose"

\* C8: every render has one active theme, one of the ten; whenever the
\* detector returns, it returns one of the nine themes other than DEFAULT.
C8_OneOfTenThemes ==
    \A s \in Sessions :
        Rendered(s) =>
            /\ view[s].theme \in Theme
            /\ clock_ok => view[s].theme \in Theme \ {DEFAULT}

C8_Witness ==
    \E s \in Sessions :
        /\ Rendered(s) /\ clock_ok
        /\ cal.kind = "unnamed"
        /\ now = [month |-> 2, day |-> 29]
        /\ view[s].theme = WINTER

\* C9: a browse render that reads a sheet of zero rows or of a header row
\* alone yields no record, shows the "no messages yet" notice and no error.
C9_EmptySheetShowsNotice ==
    [][\A s \in Sessions :
          (/\ actor' = s
           /\ view'[s].body = "browse"
           /\ calls'[s].read = 1 /\ calls'[s].failed = ""
           /\ Len(sheet) <= 1)
             => /\ view'[s].data = <<>>
                /\ view'[s].shown = {"no_messages"}]_vars

C9_Witness ==
    \E s \in Sessions :
        /\ actor = s /\ view[s].body = "browse"
        /\ calls[s].read = 1 /\ calls[s].failed = ""
        /\ sheet = <<>>
        /\ view[s].shown = {"no_messages"}

\* C10: append then read-all round-trips positionally: under a header row
\* of at least four cells, the record parsed from a four-cell data row has
\* that row's cells 0, 1, 2, 3 under name_col, msg_col, mood_col, time_col.
C10_RoundTrip ==
    [][\A s \in Sessions :
          (/\ actor' = s
           /\ view'[s].body = "browse"
           /\ calls'[s].read = 1 /\ calls'[s].failed = ""
           /\ Len(sheet) >= 2)
             => (Len(sheet[1]) >= 4
                   => /\ Len(view'[s].data) = Len(sheet) - 1
                      /\ \A r \in 1..(Len(sheet) - 1) :
                            LET record == view'[s].data[r]
                                cols == view'[s].cols
                                row == sheet[r + 1]
                            IN  Len(row) = 4 =>
                                  /\ Get(record, cols.name_col, "absent") = row[1]
                                  /\ Get(record, cols.msg_col, "absent") = row[2]
                                  /\ Get(record, cols.mood_col, "absent") = row[3]
                                  /\ Get(record, cols.time_col, "absent") = row[4])]_vars

\* The browse tab of session s shows its listing of messages.
Listed(s) == view[s].listing.view_mode # ""

\* C11: the header keys made by suffixing a repeated header name with its
\* position are pairwise distinct: no two columns share a record key.
C11_HeaderKeysDistinct ==
    \A s \in Sessions :
        Listed(s) =>
            LET uh == view[s].listing.unique_headers
            IN  \A i, j \in DOMAIN uh : i # j => uh[i] # uh[j]

\* Session s has just rendered the browse tab from a read that returned.
BrowseRead(s) ==
    /\ actor' = s
    /\ view'[s].body = "browse"
    /\ calls'[s].read = 1 /\ calls'[s].failed = ""

\* C12: data rows of any length are parsed without error: there is one
\* record per data row, the record of a row shorter than the header has no
\* key for the columns the row lacks, and it has no key for a cell beyond
\* the header.
C12_RowsOfAnyLength ==
    [][\A s \in Sessions :
          (BrowseRead(s) /\ Len(sheet) >= 2)
             => /\ "read_error" \notin view'[s].shown
                /\ Len(view'[s].data) = Len(sheet) - 1
                /\ \A r \in 1..(Len(sheet) - 1) :
                      LET record == view'[s].data[r]
                          uh == view'[s].listing.unique_headers
                          row == sheet[r + 1]
                      IN  /\ \A i \in DOMAIN uh :
                                i > Len(row) => uh[i] \notin DOMAIN record
                          /\ DOMAIN record \subseteq
                                {uh[i] : i \in 1..Min(Len(row), Len(uh))}]_vars

\* The elements of seq at the positions in idx, in their order in seq.
RECURSIVE Sub(_, _)
Sub(seq, idx) ==
    IF seq = <<>> THEN <<>>
    ELSE LET rest == Sub(SubSeq(seq, 1, Len(seq) - 1), idx)
         IN  IF Len(seq) \in idx THEN Append(rest, seq[Len(seq)]) ELSE rest

\* C13: with the mood filter on "all moods" the records before the search
\* are all the records; with a mood selected they are exactly the records
\* whose mood field equals it, in the order of the sheet.
C13_MoodFilterExact ==
    \A s \in Sessions :
        Listed(s) =>
            LET l == view[s].listing
                data == view[s].data
                mood_col == view[s].cols.mood_col
            IN  IF l.selected_mood = "ALL_MOODS"
                THEN l.mood_filtered = data
                ELSE l.mood_filtered =
                        Sub(data, {i \in DOMAIN data :
                                     /\ mood_col \in DOMAIN data[i]
                                     /\ data[i][mood_col] = l.selected_mood})

\* A mood was picked in the filter and some records, not all, remain.
C13_Witness ==
    \E s \in Sessions :
        /\ Listed(s) /\ actor = s /\ event[s].kind = "filter"
        /\ view[s].listing.selected_mood = event[s].filter
        /\ view[s].listing.selected_mood # "ALL_MOODS"
        /\ view[s].listing.mood_filtered # <<>>
        /\ Len(view[s].listing.mood_filtered) < Len(view[s].data)

\* text holds query as a substring when the case of letters is ignored:
\* at some offset every character of query equals the character of text
\* or is the same letter in the other case.
HoldsIgnoringCase(text, query) ==
    LET t == Chars(text)
        q == Chars(query)
        SameLetter(a, b) == a = b \/ LowerChar(a) = b \/ a = LowerChar(b)
    IN  \E k \in 0..Len(t) :
            /\ k + Len(q) <= Len(t)
            /\ \A j \in 1..Len(q) : SameLetter(q[j], t[k + j])

\* The field of entry that the search of session s looks at.
SearchedField(s, entry) ==
    IF session_state[s].search_by = "CONTENT"
    THEN Get(entry, view[s].cols.msg_col, "")
    ELSE Get(entry, view[s].cols.name_col, "")

\* C14: with a search text, the records shown are exactly the records left
\* by the mood filter whose content (scope "content") or author (scope
\* "user name") holds the text as a substring ignoring case, and the count
\* message reports their number: 0 when no record matches.
C14_SearchFilterExact ==
    \A s \in Sessions :
        (Listed(s) /\ session_state[s].search_query # "") =>
            LET l == view[s].listing
                hits == {i \in DOMAIN l.mood_filtered :
                           HoldsIgnoringCase(SearchedField(s, l.mood_filtered[i]),
                                             session_state[s].search_query)}
            IN  /\ l.filtered_data = Sub(l.mood_filtered, hits)
                /\ l.count = Len(l.filtered_data)
                /\ hits = {} => l.filtered_data = <<>> /\ l.count = 0

\* A search text that no record holds: nothing is shown and the message
\* reports 0.
C14_Witness ==
    \E s \in Sessions :
        /\ Listed(s) /\ actor = s /\ event[s].kind = "search"
        /\ session_state[s].search_query = "zz"
        /\ view[s].listing.mood_filtered # <<>>
        /\ view[s].listing.filtered_data = <<>>
        /\ view[s].listing.count = 0

\* The sum of the values of f.
RECURSIVE SumOf(_)
SumOf(f) ==
    IF DOMAIN f = {} THEN 0
    ELSE LET k == CHOOSE x \in DOMAIN f : TRUE
         IN  f[k] + SumOf([x \in DOMAIN f \ {k} |-> f[x]])

\* C15: the mood aggregation maps each mood label occurring in the records
\* to the number of records with that label: every mood cell is a label,
\* each label other than the sentinel counts the records with that cell,
\* no label has count zero, and the counts sum to the number of records.
C15_MoodCounts ==
    \A s \in Sessions :
        Listed(s) =>
            LET md == view[s].listing.mood_data
                data == view[s].data
                mood_col == view[s].cols.mood_col
                With(m) == {i \in DOMAIN data :
                              mood_col \in DOMAIN data[i] /\ data[i][mood_col] = m}
            IN  /\ \A i \in DOMAIN data :
                      mood_col \in DOMAIN data[i] =>
                          data[i][mood_col] \in DOMAIN md
                /\ \A m \in DOMAIN md :
                      /\ md[m] >= 1
                      /\ m # "UNKNOWN" => md[m] = Cardinality(With(m))
                /\ SumOf(md) = Len(data)

\* Two records with the moods "happy" and "sad" give one each.
C15_Witness ==
    \E s \in Sessions :
        /\ Listed(s)
        /\ Len(view[s].data) = 2
        /\ view[s].listing.mood_data =
              [m \in {"happy KaiXin", "sad NanGuo"} |-> 1]

\* C16: the records whose mood cell is absent or empty are counted under
\* the sentinel label "unknown", and under no other label.
C16_MissingMoodIsUnknown ==
    \A s \in Sessions :
        Listed(s) =>
            LET md == view[s].listing.mood_data
                data == view[s].data
                mood_col == view[s].cols.mood_col
                missing == {i \in DOMAIN data :
                              \/ mood_col \notin DOMAIN data[i]
                              \/ data[i][mood_col] = ""}
            IN  /\ "" \notin DOMAIN md
                /\ missing # {} =>
                      /\ "UNKNOWN" \in DOMAIN md
                      /\ md["UNKNOWN"] = Cardinality(missing)

\* The rows that the submitted form ev stands for, one per timestamp:
\* author, content, the label of the selected mood, timestamp.
FormRows(ev) ==
    {<<IF ev.anonymous \/ ev.name = "" THEN "ANON" ELSE ev.name,
       ev.message, moods_display[ev.mood + 1], t>> : t \in Times}

\* C17: a successful submission calls append once, with four cells: the
\* author, the content, the mood and the timestamp, in this order; the mood
\* is the label selected on the form, one of the six labels.
C17_AppendsFourCells ==
    [][\A s \in Sessions :
          (/\ actor' = s
           /\ event'[s].kind = "submit"
           /\ calls'[s].append = 1 /\ calls'[s].failed = "")
             => \E row \in FormRows(event'[s]) :
                   /\ Len(row) = 4
                   /\ row[3] \in Range(moods_display)
                   /\ sheet' = Append(sheet, row)
                   /\ appended'[s] = Append(appended[s], row)]_vars

\* A submission with the last mood selected was appended.
C17_Witness ==
    \E s \in Sessions :
        /\ actor = s /\ SubmitSucceeded(s)
        /\ event[s].mood = 5 /\ event[s].name = "Al" /\ ~event[s].anonymous
        /\ sheet # <<>>
        /\ sheet[Len(sheet)] = <<"Al", "hi", "thinking SiKaoZhong", "t1">>

\* C18: no row is updated or deleted: in every step the rows of the store
\* remain as a prefix of the store, and the store changes only in a run
\* where a submission was appended; refresh, filter, search, like and every
\* other action leave the store as it is.
C18_StoreAppendOnly ==
    [][/\ Len(sheet) <= Len(sheet')
       /\ SubSeq(sheet', 1, Len(sheet)) = sheet
       /\ sheet' # sheet =>
             \E s \in Sessions :
                /\ actor' = s
                /\ event'[s].kind = "submit"
                /\ calls'[s].append = 1 /\ calls'[s].failed = ""
                /\ Len(sheet') = Len(sheet) + 1]_vars

\* One session has appended two different rows, and the other then pressed
\* a like button on the browse tab.
C18_Witness ==
    /\ Len(appended["s2"]) = 2
    /\ Len(sheet) = 3 /\ sheet[2] # sheet[3]
    /\ actor = "s1" /\ event["s1"].kind = "like"

\* C19: whichever of the three layouts is selected, the messages rendered
\* are the filtered records in their order, and every rendered message has
\* the like control showing whether it is in the session's liked set.
C19_LayoutsSameRecordsAndLike ==
    \A s \in Sessions :
        (Listed(s) /\ ~rerun[s]) =>
            LET l == view[s].listing
            IN  /\ [i \in DOMAIN l.blocks |-> l.blocks[i].entry] = l.filtered_data
                /\ \A i \in DOMAIN l.blocks :
                      l.blocks[i].like =
                          IF message_id(l.blocks[i].entry, view[s].cols)
                                \in session_state[s].liked_messages
                          THEN "liked" ELSE "unliked"

\* Author and timestamp of a record, absent cells read as empty.
AuthorOf(entry, cols) == Get(entry, cols.name_col, "")
TimeOf(entry, cols) == Get(entry, cols.time_col, "")

\* C20: pressing the like button of a record toggles the membership of
\* author + "_" + timestamp in the session's liked set and changes nothing
\* else in the set, so that a second press restores the set; and rendered
\* records with the same author and timestamp show the same liked state.
C20_LikeToggle ==
    [][\A s \in Sessions :
          /\ (/\ actor' = s /\ event'[s].kind = "like"
              /\ view'[s].listing.view_mode = "CARD"
              /\ event'[s].like < Len(view'[s].listing.filtered_data))
                => LET entry == view'[s].listing.filtered_data[event'[s].like + 1]
                       id == AuthorOf(entry, view'[s].cols) \o "_"
                                \o TimeOf(entry, view'[s].cols)
                       before == session_state[s].liked_messages
                       after == session_state'[s].liked_messages
                   IN  /\ id \in after <=> id \notin before
                       /\ after \ {id} = before \ {id}
          /\ (Listed(s) /\ ~rerun[s])
                => LET blocks == view[s].listing.blocks
                       cols == view[s].cols
                   IN  \A i, j \in DOMAIN blocks :
                          (/\ AuthorOf(blocks[i].entry, cols)
                                 = AuthorOf(blocks[j].entry, cols)
                           /\ TimeOf(blocks[i].entry, cols)
                                 = TimeOf(blocks[j].entry, cols))
                             => blocks[i].like = blocks[j].like]_vars

\* Two different records of one author and one timestamp are shown liked
\* after one press, and a record of another author is not.
C20_Witness ==
    \E s \in Sessions :
        /\ Listed(s) /\ ~rerun[s]
        /\ session_state[s].liked_messages = {"Al_t1"}
        /\ \E i, j, k \in DOMAIN view[s].listing.blocks :
              LET blocks == view[s].listing.blocks
              IN  /\ blocks[i].entry # blocks[j].entry
                  /\ blocks[i].like = "liked" /\ blocks[j].like = "liked"
                  /\ blocks[k].like = "unliked"

\* C21: when the connection fails or the append call raises during a
\* submission, an error message is shown, there is one connection attempt
\* and at most one append attempt, the store is unchanged, the success flag
\* is not set, no rerun is requested and the active tab stays compose.
C21_SubmitFailureAborts ==
    [][\A s \in Sessions :
          (/\ actor' = s /\ event'[s].kind = "submit"
           /\ calls'[s].failed \in {"connect", "append"})
             => /\ calls'[s].failed = "connect"
                      => /\ "connect_error" \in view'[s].shown
                         /\ calls'[s].connect = 1 /\ calls'[s].append = 0
                /\ calls'[s].failed = "append"
                      => /\ "append_error" \in view'[s].shown
                         /\ calls'[s].connect = 1 /\ calls'[s].append = 1
                /\ sheet' = sheet
                /\ appended'[s] = appended[s]
                /\ ~session_state'[s].submission_success
                /\ "success" \notin view'[s].shown
                       \/ session_state[s].submission_success
                /\ ~rerun'[s]
                /\ session_state'[s].tab_selection = 0
                /\ session_state[s].tab_selection = 0
                /\ view'[s].body = "compose"]_vars

\* A submission whose append call raised.
C21_Witness ==
    \E s \in Sessions :
        /\ actor = s /\ event[s].kind = "submit" /\ event[s].message = "hi"
        /\ calls[s].failed = "append"
        /\ "append_error" \in view[s].shown
        /\ Len(sheet) = 1

\* C22: a browse render that has records and the word cloud switched on,
\* and in which the cloud fails or nothing is produced, shows the notice
\* that no cloud could be made and still renders the listing of the
\* messages in the same run.
C22_WordcloudFailureIsolated ==
    [][\A s \in Sessions :
          (/\ BrowseRead(s)
           /\ Len(sheet) >= 2
           /\ session_state'[s].show_wordcloud
           /\ "wordcloud" \notin view'[s].shown)
             => /\ "wordcloud_info" \in view'[s].shown
                /\ "read_error" \notin view'[s].shown
                /\ view'[s].listing.view_mode # ""
                /\ view'[s].listing.blocks # <<>>
                /\ [i \in DOMAIN view'[s].listing.blocks |->
                       view'[s].listing.blocks[i].entry] = view'[s].data]_vars

\* The drawing of the cloud failed: its error and the notice are shown
\* above the listing.
C22_Witness ==
    \E s \in Sessions :
        /\ actor = s /\ event[s].kind = "cloud" /\ event[s].cloud
        /\ "wordcloud_error" \in view[s].shown
        /\ "wordcloud_info" \in view[s].shown
        /\ Listed(s) /\ Len(view[s].listing.blocks) = 2

\* C23: a browse render in which the layout or the mood filter is changed
\* and that shows the listing plays the loading animation again, and
\* leaves animation_done set.
C23_ViewOrMoodChangeReplays ==
    [][\A s \in Sessions :
          (/\ BrowseRead(s)
           /\ view'[s].listing.view_mode # ""
           /\ \/ /\ event'[s].kind = "view"
                 /\ event'[s].view # session_state[s].view_mode
              \/ /\ event'[s].kind = "filter"
                 /\ event'[s].filter # session_state[s].filter_mood)
             => /\ view'[s].listing.animated
                /\ session_state'[s].animation_done]_vars

\* The animation was played for a changed layout, and for a changed filter.
C23_Witness ==
    \E s \in Sessions :
        /\ actor = s /\ Listed(s)
        /\ event[s].kind = "filter"
        /\ session_state[s].filter_mood = event[s].filter
        /\ session_state[s].view_mode = "GRID"
        /\ view[s].listing.animated
        /\ session_state[s].animation_done

\* C24: a browse render in which the search text or the search scope is
\* changed and that shows the listing invalidates animation_done: the
\* loading animation is played in this run, or the flag is left unset so
\* that the next render plays it.
C24_SearchChangeReplays ==
    [][\A s \in Sessions :
          (/\ BrowseRead(s)
           /\ view'[s].listing.view_mode # ""
           /\ \/ /\ event'[s].kind = "search"
                 /\ event'[s].query # session_state[s].search_query
              \/ /\ event'[s].kind = "scope"
                 /\ event'[s].by # session_state[s].search_by)
             => \/ view'[s].listing.animated
                \/ ~session_state'[s].animation_done]_vars

\* seq is an interleaving of a and b: it holds the elements of a and the
\* elements of b, each element once, those of a in the order of a and
\* those of b in the order of b.
RECURSIVE IsMerge(_, _, _)
IsMerge(seq, a, b) ==
    IF seq = <<>> THEN a = <<>> /\ b = <<>>
    ELSE \/ a # <<>> /\ Head(a) = Head(seq) /\ IsMerge(Tail(seq), Tail(a), b)
         \/ b # <<>> /\ Head(b) = Head(seq) /\ IsMerge(Tail(seq), a, Tail(b))

\* C25: whatever the interleaving of the submissions of two sessions, the
\* store holds its first rows and then exactly the rows of the successful
\* submissions, one row each, none lost, repeated or overwritten, the rows
\* of each session in the order the session submitted them; a successful
\* submission puts its row at the end.
C25_InterleavedAppends ==
    /\ sheet # <<>>
    /\ Head(sheet) = <<"Name", "Message", "Mood", "Time">>
    /\ IsMerge(Tail(sheet), appended["s1"], appended["s2"])
    /\ Len(sheet) = 1 + Len(appended["s1"]) + Len(appended["s2"])
    /\ \A s \in Sessions :
          (actor = s /\ SubmitSucceeded(s))
             => /\ appended[s] # <<>>
                /\ sheet[Len(sheet)] = appended[s][Len(appended[s])]

\* Both sessions have submitted; the row of the second session came first.
C25_Witness ==
    /\ Len(appended["s1"]) = 1 /\ Len(appended["s2"]) = 1
    /\ Len(sheet) = 3
    /\ sheet[2] = appended["s2"][1] /\ sheet[3] = appended["s1"][1]
    /\ sheet[2] # sheet[3]
    /\ actor = "s1" /\ SubmitSucceeded("s1")

\* C26: the active tab is compose (0) or browse (1) and every run renders
\* exactly one of the two tab bodies, the compose form when tab_selection
\* is 0 and the browse view otherwise.
C26_ExactlyOneBody ==
    \A s \in Sessions :
        Rendered(s) =>
            /\ session_state[s].tab_selection \in {0, 1}
            /\ view[s].body =
                  IF session_state[s].tab_selection = 0
                  THEN "compose" ELSE "browse"

\* C26, amended: the active tab is compose (0) or browse (1); a run in
\* which the other tab is selected in the navigation control stores the
\* selected index, renders neither body and asks for a rerun; every other
\* run keeps the tab and renders exactly the body of the active tab.
C26_OneBodyUnlessRestarted ==
    [][\A s \in Sessions :
          actor' = s =>
             LET before == IF Started(s)
                           THEN session_state[s].tab_selection ELSE 0
                 after == session_state'[s].tab_selection
             IN  /\ after \in {0, 1}
                 /\ IF event'[s].kind = "tab" /\ event'[s].tab # before
                    THEN /\ after = event'[s].tab
                         /\ rerun'[s]
                         /\ view'[s].body = "none"
                    ELSE /\ after = before
                         /\ view'[s].body =
                               IF after = 0 THEN "compose" ELSE "browse"]_vars

\* The run that follows the selection of the browse tab renders the browse
\* view.
C26_Witness ==
    \E s \in Sessions :
        /\ actor = s /\ event[s].kind = "rerun"
        /\ session_state[s].tab_selection = 1
        /\ view[s].body = "browse"

C28_AuthorCell ==
    [][\A s \in Sessions :
          (actor' = s /\ Len(sheet') > Len(sheet))
             => LET ev == event'[s]
                    author == sheet'[Len(sheet')][1]
                IN  /\ ev.kind = "submit"
                    /\ (ev.anonymous \/ ev.name = "") <=> author = "ANON"
                    /\ ~(ev.anonymous \/ ev.name = "") => author = ev.name
                    /\ author # ""
                    /\ \A i \in 1..Len(appended'[s]) : appended'[s][i][1] # ""]_vars

\* A name was entered and the anonymous box checked: the appended row
\* carries the placeholder; and a row with an entered name is in the store.
C28_Witness ==
    \E s \in Sessions :
        /\ actor = s /\ SubmitSucceeded(s)
        /\ event[s].anonymous /\ event[s].name = "Al"
        /\ sheet[Len(sheet)][1] = "ANON"
        /\ \E i \in 1..Len(sheet) : sheet[i][1] = "Al"

\* C29: the search filter works on what the mood filter left; the sequence
\* laid out by a completed run is exactly the parsed records that pass
\* both the mood filter and the search filter, in the order of the parsed
\* records, and the count reported with a search text is its length.
C29_PipelineBothFilters ==
    \A s \in Sessions :
        (Listed(s) /\ ~rerun[s]) =>
            LET l == view[s].listing
                data == view[s].data
                query == session_state[s].search_query
                both == {i \in DOMAIN data :
                           /\ \/ l.selected_mood = "ALL_MOODS"
                              \/ Get(data[i], view[s].cols.mood_col, "")
                                    = l.selected_mood
                           /\ \/ query = ""
                              \/ HoldsIgnoringCase(SearchedField(s, data[i]),
                                                   query)}
                rendered == [i \in DOMAIN l.blocks |-> l.blocks[i].entry]
            IN  /\ rendered = Sub(data, both)
                /\ \E idx \in SUBSET DOMAIN l.mood_filtered :
                      rendered = Sub(l.mood_filtered, idx)
                /\ \E idx \in SUBSET DOMAIN data :
                      l.mood_filtered = Sub(data, idx)
                /\ query # "" => l.count = Len(rendered)

\* A mood is selected and a search text entered: the mood filter drops a
\* record, the search drops another, and one record is laid out.
C29_Witness ==
    \E s \in Sessions :
        /\ Listed(s) /\ ~rerun[s] /\ actor = s
        /\ view[s].listing.selected_mood # "ALL_MOODS"
        /\ session_state[s].search_query # ""
        /\ Len(view[s].listing.mood_filtered) < Len(view[s].data)
        /\ Len(view[s].listing.filtered_data)
              < Len(view[s].listing.mood_filtered)
        /\ Len(view[s].listing.blocks) = 1
        /\ view[s].listing.count = 1

\* The mood labels that occur in the records.
MoodsIn(data, mood_col) ==
    {Get(data[i], mood_col, "") : i \in DOMAIN data} \ {""}

\* C30: after a browse run that reached the mood filter control the stored
\* mood filter is "all moods" or a mood of the rows just read; when the
\* filter stored before the run is no longer a mood of the rows and no mood
\* was picked, "all moods" is stored, the animation is played again and
\* all the records are listed.
C30_StoredFilterOccurs ==
    [][\A s \in Sessions :
          (actor' = s /\ view'[s].listing.view_mode # "") =>
             LET l == view'[s].listing
                 occurring == MoodsIn(view'[s].data, view'[s].cols.mood_col)
                 before == session_state[s].filter_mood
                 stored == session_state'[s].filter_mood
             IN  /\ view'[s].data = ParseRows(sheet')
                 /\ stored \in {"ALL_MOODS"} \cup occurring
                 /\ stored = l.selected_mood
                 /\ (before \notin {"ALL_MOODS"} \cup occurring
                       /\ event'[s].kind # "filter")
                      => /\ stored = "ALL_MOODS"
                         /\ l.animated
                         /\ session_state'[s].animation_done
                         /\ l.mood_filtered = view'[s].data
                         /\ l.filtered_data # <<>>]_vars

\* The mood "sad" was stored, the rows were replaced by rows without it,
\* and the next browse run fell back to "all moods", played the animation
\* and listed the three records.
C30_Witness ==
    \E s \in Sessions :
        /\ actor = s /\ Listed(s) /\ event[s].kind # "filter"
        /\ view[s].listing.stored_mood = "sad NanGuo"
        /\ "sad NanGuo" \notin view[s].listing.all_moods
        /\ session_state[s].filter_mood = "ALL_MOODS"
        /\ view[s].listing.animated
        /\ Len(view[s].listing.filtered_data) = 3

====
